---- MODULE Spec2Model ----
(***************************************************************************)
(* Model of task/main.py (class DiscoverGranules): the recursive discovery *)
(* walks over HTTP, SFTP and S3, the reconciliation against the Metadata   *)
(* Store under the duplicate-handling policy, the output record generator  *)
(* and the cleanup mode of discover().                                     *)
(*                                                                         *)
(* Strings that are paths (URLs, SFTP paths, S3 keys) are sequences of     *)
(* their '/'-separated segments: "http://host/data/a/f" is                 *)
(* <<"http://host", "data", "a", "f">> and the SFTP path "/data/f" is      *)
(* <<"", "data", "f">>.  key.rsplit('/', 1) is then (Front, Last).         *)
(***************************************************************************)
EXTENDS Integers, Sequences, FiniteSets, TLC

VARIABLES
    protocol,       \* provider["protocol"]
    provider_path,  \* config["provider_path"], as segments
    dirs,           \* remote content: the directories, relative to provider_path
    files,          \* remote content: file (relative path) -> what the server holds
    listOrder,      \* the order in which the remote lists names
    store,          \* the Metadata Store: key -> stored record
    storeBefore,    \* the store when the last operation started
    config,         \* the configuration of the last operation
    op,             \* the last operation and how it ended
    granule_dict,   \* the mapping the last discovery walk returned
    walk,           \* what the last walk did: locations listed, entries behind each key
    survivors,      \* granule_dict after check_granule_updates_db
    output,         \* the records discover() returned
    cleanup,        \* cleanup mode: the names handed to the store and the count
    prev,           \* the reconcile call before the last one: whether it was given
                    \* the same mapping, and whether its configuration asked for skip
    runs,           \* invocations and changes of the remote content so far
    stack,          \* the frames of the discovery walk that is running, innermost last
    session         \* the transport session: the SFTP current directory, the
                    \* locations listed so far and the calls that failed

vars == <<protocol, provider_path, dirs, files, listOrder, store, storeBefore,
          config, op, granule_dict, walk, survivors, output, cleanup, prev, runs,
          stack, session>>

(***************************************************************************)
(* Bounds of the model.                                                    *)
(***************************************************************************)
TreeDepth == 4      \* levels of directories below the start location
MaxDepthArg == 5    \* |depth| of the configured depth ranges up to this
MaxRuns == 3        \* invocations of discover() in one behaviour of Spec
MaxChanges == 1     \* changes of the remote content in one behaviour of Spec

(***************************************************************************)
(* Python values.                                                          *)
(***************************************************************************)
PyNone == "<None>"
Absent == "<absent>"     \* a key the configuration does not hold

\* str(v) for a string or None
Str(v) == IF v = PyNone THEN "None" ELSE v

\* d.get(k) of a dictionary with string keys
Get(d, k) == IF k \in DOMAIN d THEN d[k] ELSE PyNone

EmptyDict == [k \in {} |-> PyNone]

\* d1.update(d2): the entries of d2 win
Update(d1, d2) == d2 @@ d1

Front(s) == SubSeq(s, 1, Len(s) - 1)
Last(s) == s[Len(s)]

Abs(n) == IF n < 0 THEN -n ELSE n
Min(a, b) == IF a < b THEN a ELSE b

(***************************************************************************)
(* Regular expressions.  A pattern is one of                               *)
(*   none         : the option is not configured (None)                    *)
(*   ends, s      : "(^|/)s$"      the last segment is s                   *)
(*   has, s       : "(^|/)s(/|$)"  some segment is s                       *)
(*   any          : ".*"                                                   *)
(* and re.search is applied to a path or to a base name (one segment).     *)
(***************************************************************************)
NoRegex == [kind |-> "none", s |-> ""]
Ends(n) == [kind |-> "ends", s |-> n]
Has(n) == [kind |-> "has", s |-> n]
AnyName == [kind |-> "any", s |-> ""]

re_search(rx, p) ==
    CASE rx.kind = "ends" -> Len(p) > 0 /\ p[Len(p)] = rx.s
      [] rx.kind = "has" -> \E i \in 1..Len(p) : p[i] = rx.s
      [] rx.kind = "any" -> TRUE
      [] OTHER -> FALSE

\* "reg_ex is None or re.search(reg_ex, s)"
Passes(rx, p) == rx.kind = "none" \/ re_search(rx, p)

(***************************************************************************)
(* The remote content.                                                     *)
(***************************************************************************)
Host == "host"
DirNames == {"a", "b"}
FileNames == {"f", "g"}
Names == DirNames \cup FileNames
ETags == {"e1", "e2"}
Times == {1000, 2000}
Sizes == {10, 20}

Origin == protocol \o "://" \o Host

\* sequences over S of length 1..n
RECURSIVE SeqsUpTo(_, _)
SeqsUpTo(S, n) ==
    IF n = 0 THEN {}
    ELSE LET shorter == SeqsUpTo(S, n - 1)
         IN  {<<x>> : x \in S} \cup shorter
                \cup {Append(p, x) : p \in shorter, x \in S}

IsDir(rel) == rel = <<>> \/ rel \in dirs
IsFile(rel) == rel \in DOMAIN files

\* the names of the entries of directory rel, in the remote's listing order
Listing(rel) ==
    IF ~IsDir(rel) THEN <<>>
    ELSE LET here(n) == Append(rel, n) \in dirs \/ Append(rel, n) \in DOMAIN files
         IN  SelectSeq(listOrder, here)

\* an HTTP date header for a modification time, and dateutil's parse(...).timestamp()
HttpDate(t) == "date:" \o ToString(t)
ParseTimestamp(h) == CHOOSE t \in Times : HttpDate(t) = h
FloatStr(t) == ToString(t) \o ".0"

\* an S3 ETag as listed, and etag.strip('"')
Quoted(e) == "\"" \o e \o "\""
StripQuotes(q) == CHOOSE e \in ETags : Quoted(e) = q

(***************************************************************************)
(* Helpers of the walks.                                                   *)
(***************************************************************************)
\* a number as Python holds it (int, or the float of datetime.timestamp()) and str() of it
PyInt(n) == [v |-> n, float |-> FALSE]
PyFloat(n) == [v |-> n, float |-> TRUE]
StrNum(x) == IF x.float THEN FloatStr(x.v) ELSE ToString(x.v)

\* populate_dict (module level and static method): target_dict[key] = {...}
populate_dict(target_dict, key, etag, last_mod, size) ==
    Update(target_dict,
           key :> [ETag |-> etag, LastModified |-> StrNum(last_mod), Size |-> size])

\* the entries written under each key, in order (bookkeeping of the model, not of the code)
NoSrc == [k \in {} |-> <<>>]
SrcAdd(src, key, loc) ==
    Update(src, key :> (IF key \in DOMAIN src THEN Append(src[key], loc) ELSE <<loc>>))
SrcMerge(a, b) ==
    [k \in DOMAIN a \cup DOMAIN b |->
        (IF k \in DOMAIN a THEN a[k] ELSE <<>>) \o (IF k \in DOMAIN b THEN b[k] ELSE <<>>)]

MaxLevels == 3

\* depth = min(abs(depth), 3)
ClampNoLimit(depth) == Abs(depth)
Clamp(depth) == Min(Abs(depth), MaxLevels)

(***************************************************************************)
(* HTTP: html_request, headers_request and discover_granules_http.         *)
(***************************************************************************)
\* the start URL prep_http builds: protocol://host/provider_path
HttpBase == <<Origin>> \o provider_path

\* the remote path a URL or key names (the segments after protocol://host/provider_path)
RelOf(base, loc) == SubSeq(loc, Len(base) + 1, Len(loc))
Under(base, loc) == Len(loc) >= Len(base) /\ SubSeq(loc, 1, Len(base)) = base

\* html_request(url).findAll('a', href=True), each href cut to its last segment
html_request(url_path) ==
    IF Under(HttpBase, url_path) THEN Listing(RelOf(HttpBase, url_path)) ELSE <<>>

\* headers_request(path): the headers of the HEAD response
headers_request(path) ==
    LET rel == RelOf(HttpBase, path)
    IN  IF Under(HttpBase, path) /\ IsFile(rel)
        THEN LET f == files[rel]
                 e == IF f.hdr \in {"both", "etag"} THEN "ETag" :> f.etag ELSE EmptyDict
                 m == IF f.hdr \in {"both", "lm"}
                      THEN "Last-Modified" :> HttpDate(f.mtime) ELSE EmptyDict
             IN  e @@ m
        ELSE EmptyDict

\* the loop over the a_tags of one page (lines 256-283)
RECURSIVE HttpScan(_, _, _, _, _, _)
HttpScan(url_path, tags, i, file_reg_ex, dir_reg_ex, acc) ==
    IF i > Len(tags) THEN acc
    ELSE
      LET url_segment == tags[i]
          path == Append(url_path, url_segment)
          head_resp == headers_request(path)
          etag == Get(head_resp, "ETag")
          last_modified == Get(head_resp, "Last-Modified")
          rec == IF last_modified # PyNone
                 THEN [ETag |-> Str(etag),
                       LastModified |-> FloatStr(ParseTimestamp(last_modified))]
                 ELSE [ETag |-> Str(etag)]
          next ==
            IF (etag # PyNone \/ last_modified # PyNone)
                  /\ Passes(file_reg_ex, <<url_segment>>)
            THEN [acc EXCEPT !.gd = Update(@, path :> rec),
                             !.src = SrcAdd(@, path, path)]
            ELSE IF (etag = PyNone /\ last_modified = PyNone)
                      /\ Passes(dir_reg_ex, path)
            THEN [acc EXCEPT !.dl = Append(@, path)]
            ELSE acc
      IN  HttpScan(url_path, tags, i + 1, file_reg_ex, dir_reg_ex, next)

RECURSIVE discover_granules_http(_, _, _, _)
RECURSIVE HttpRecurse(_, _, _, _, _, _)

\* the loop over directory_list (lines 288-292)
HttpRecurse(directory_list, i, file_reg_ex, dir_reg_ex, depth, acc) ==
    IF i > Len(directory_list) THEN acc
    ELSE
      LET sub == discover_granules_http(directory_list[i], file_reg_ex, dir_reg_ex,
                                        depth - 1)
          next == [gd |-> Update(acc.gd, sub.gd),
                   src |-> SrcMerge(acc.src, sub.src),
                   listed |-> acc.listed \o sub.listed]
      IN  HttpRecurse(directory_list, i + 1, file_reg_ex, dir_reg_ex, depth, next)

discover_granules_http(url_path, file_reg_ex, dir_reg_ex, depth_arg) ==
    LET scan == HttpScan(url_path, html_request(url_path), 1, file_reg_ex, dir_reg_ex,
                         [gd |-> EmptyDict, src |-> NoSrc, dl |-> <<>>])
        depth == Clamp(depth_arg)
        here == [gd |-> scan.gd, src |-> scan.src, listed |-> <<url_path>>]
    IN  IF depth > 0
        THEN HttpRecurse(scan.dl, 1, file_reg_ex, dir_reg_ex, depth, here)
        ELSE here

(***************************************************************************)
(* S3: discover_granules_s3.                                               *)
(***************************************************************************)
\* the objects the paginator yields for Prefix=prefix, as Contents entries
get_s3_resp_iterator(prefix) ==
    {[Key |-> prefix \o rel, ETag |-> Quoted(files[rel].etag),
      LastModified |-> files[rel].mtime, Size |-> files[rel].size] : rel \in DOMAIN files}

discover_granules_s3(prefix, file_reg_ex, dir_reg_ex) ==
    LET objects == get_s3_resp_iterator(prefix)
        keyOf(o) == <<Origin>> \o o.Key
        kept == {o \in objects : /\ Passes(file_reg_ex, <<Last(keyOf(o))>>)
                                 /\ Passes(dir_reg_ex, Front(keyOf(o)))}
        entry(k) == CHOOSE o \in kept : keyOf(o) = k
        keys == {keyOf(o) : o \in kept}
    IN  [gd |-> [k \in keys |->
                    [ETag |-> StripQuotes(entry(k).ETag),
                     LastModified |-> StrNum(PyFloat(entry(k).LastModified)),
                     Size |-> entry(k).Size]],
         src |-> [k \in keys |-> <<k>>],
         listed |-> <<<<Origin>> \o prefix>>]

(***************************************************************************)
(* SFTP: chdir, listdir, stat and discover_granules_sftp.  The session's   *)
(* current directory is threaded through the walk.                         *)
(***************************************************************************)
SftpBase == <<"">> \o provider_path

\* sftp_client.chdir(path) from current directory cwd
chdir(cwd, path) ==
    IF path = <<"..">> THEN (IF Len(cwd) > 1 THEN Front(cwd) ELSE cwd)
    ELSE IF Len(path) > 0 /\ path[1] = "" THEN path
    ELSE cwd \o path

\* sftp_client.listdir() in cwd
listdir(cwd) == IF Under(SftpBase, cwd) THEN Listing(RelOf(SftpBase, cwd)) ELSE <<>>

\* sftp_client.stat(dir_file) in cwd
stat(cwd, dir_file) ==
    LET rel == RelOf(SftpBase, Append(cwd, dir_file))
    IN  IF rel \in dirs
        THEN [type |-> "d", st_mtime |-> 1000, st_size |-> 4096]
        ELSE [type |-> "-", st_mtime |-> files[rel].mtime, st_size |-> files[rel].size]

\* the loop over listdir() (lines 389-399)
RECURSIVE SftpScan(_, _, _, _, _, _, _)
SftpScan(cwd, path, entries, i, file_reg_ex, dir_reg_ex, acc) ==
    IF i > Len(entries) THEN acc
    ELSE
      LET dir_file == entries[i]
          file_stat == stat(cwd, dir_file)
          key == Append(path, dir_file)
          next ==
            IF file_stat.type = "d" /\ Passes(dir_reg_ex, path)
            THEN [acc EXCEPT !.dl = Append(@, <<dir_file>>)]
            ELSE IF Passes(file_reg_ex, <<dir_file>>)
            THEN [acc EXCEPT
                    !.gd = populate_dict(@, key, "N/A", PyInt(file_stat.st_mtime),
                                         file_stat.st_size),
                    !.src = SrcAdd(@, key, Append(cwd, dir_file))]
            ELSE acc
      IN  SftpScan(cwd, path, entries, i + 1, file_reg_ex, dir_reg_ex, next)

RECURSIVE discover_granules_sftp(_, _, _, _, _)
RECURSIVE SftpRecurse(_, _, _, _, _, _)

\* the loop over directory_list (lines 403-407); acc.cwd is the session's directory
SftpRecurse(directory_list, i, file_reg_ex, dir_reg_ex, depth, acc) ==
    IF i > Len(directory_list) THEN acc
    ELSE
      LET sub == discover_granules_sftp(acc.cwd, directory_list[i], file_reg_ex,
                                        dir_reg_ex, depth - 1)
          next == [gd |-> Update(acc.gd, sub.gd),
                   src |-> SrcMerge(acc.src, sub.src),
                   listed |-> acc.listed \o sub.listed,
                   cwd |-> sub.cwd]
      IN  SftpRecurse(directory_list, i + 1, file_reg_ex, dir_reg_ex, depth, next)

discover_granules_sftp(cwd0, path, file_reg_ex, dir_reg_ex, depth_arg) ==
    LET cwd == chdir(cwd0, path)
        scan == SftpScan(cwd, path, listdir(cwd), 1, file_reg_ex, dir_reg_ex,
                         [gd |-> EmptyDict, src |-> NoSrc, dl |-> <<>>])
        depth == Clamp(depth_arg)
        here == [gd |-> scan.gd, src |-> scan.src, listed |-> <<cwd>>, cwd |-> cwd]
        done == IF depth > 0
                THEN SftpRecurse(scan.dl, 1, file_reg_ex, dir_reg_ex, depth, here)
                ELSE here
    IN  [done EXCEPT !.cwd = chdir(@, <<"..">>)]

(***************************************************************************)
(* discover_granules: dispatch on the protocol (prep_http, prep_https,     *)
(* prep_s3, prep_sftp).                                                    *)
(***************************************************************************)
prep_http(file_reg_ex, dir_reg_ex, depth) ==
    discover_granules_http(HttpBase, file_reg_ex, dir_reg_ex, depth)

prep_s3(file_reg_ex, dir_reg_ex) ==
    discover_granules_s3(provider_path, file_reg_ex, dir_reg_ex)

prep_sftp(file_reg_ex, dir_reg_ex, depth) ==
    LET r == discover_granules_sftp(<<"">>, SftpBase, file_reg_ex, dir_reg_ex, depth)
    IN  [gd |-> r.gd, src |-> r.src, listed |-> r.listed]

discover_granules(file_reg_ex, dir_reg_ex, depth) ==
    CASE protocol \in {"http", "https"} -> prep_http(file_reg_ex, dir_reg_ex, depth)
      [] protocol = "s3" -> prep_s3(file_reg_ex, dir_reg_ex)
      [] protocol = "sftp" -> prep_sftp(file_reg_ex, dir_reg_ex, depth)

(***************************************************************************)
(* The Metadata Store (task/dgm.py: Granule.db_skip, db_replace, db_error, *)
(* delete_granules_by_names).  Each takes the store and returns the store  *)
(* after the call; db_* also return the caller's dictionary as the call    *)
(* leaves it (the surviving set).                                          *)
(***************************************************************************)
Restrict(d, keys) == [k \in keys |-> d[k]]

db_skip(st, gd) ==
    LET new == DOMAIN gd \ DOMAIN st
    IN  [raised |-> "", store |-> Update(st, Restrict(gd, new)), gd |-> Restrict(gd, new)]

db_replace(st, gd) ==
    [raised |-> "", store |-> Update(st, gd), gd |-> gd]

db_error(st, gd) ==
    IF DOMAIN gd \cap DOMAIN st # {}
    THEN [raised |-> "DuplicateGranuleError", store |-> st, gd |-> gd]
    ELSE [raised |-> "", store |-> Update(st, gd), gd |-> gd]

delete_granules_by_names(st, names) ==
    LET hit == {names[i] : i \in 1..Len(names)} \cap DOMAIN st
    IN  [store |-> Restrict(st, DOMAIN st \ hit), num |-> Cardinality(hit)]

(***************************************************************************)
(* check_granule_updates_db.                                               *)
(***************************************************************************)
\* str(v).lower() of a configured value, given as str(v)
Lower(s) ==
    CASE s = "True" -> "true"
      [] s = "False" -> "false"
      [] s = "Skip" -> "skip"
      [] s = "Replace" -> "replace"
      [] s = "Error" -> "error"
      [] OTHER -> s

\* d.get(key, default)
GetOr(v, default) == IF v = Absent THEN default ELSE v

\* lines 206-210: the policy the call applies
ResolveForceIgnored(duplicateHandling, force_replace) ==
    LET duplicates == Lower(GetOr(duplicateHandling, "skip"))
    IN  IF duplicates = "replace" THEN "skip" ELSE duplicates
ResolveNoOverride(duplicateHandling, force_replace) ==
    Lower(GetOr(duplicateHandling, "skip"))
ResolveErrorAsSkip(duplicateHandling, force_replace) ==
    LET duplicates == Lower(GetOr(duplicateHandling, "skip"))
        force == Lower(GetOr(force_replace, "false"))
    IN  IF duplicates = "error" \/ (duplicates = "replace" /\ force = "false")
        THEN "skip" ELSE duplicates
ResolvePolicy(duplicateHandling, force_replace) ==
    LET duplicates == Lower(GetOr(duplicateHandling, "skip"))
        force == Lower(GetOr(force_replace, "false"))
    IN  IF duplicates = "replace" /\ force = "false" THEN "skip" ELSE duplicates

\* lines 212-213: getattr(Granule, f'db_{duplicates}')(Granule(), granule_dict)
check_granule_updates_db(st, gd, duplicateHandling, force_replace) ==
    LET duplicates == ResolvePolicy(duplicateHandling, force_replace)
    IN  CASE duplicates = "skip" -> db_skip(st, gd)
          [] duplicates = "replace" -> db_replace(st, gd)
          [] duplicates = "error" -> db_error(st, gd)
          [] OTHER -> [raised |-> "AttributeError", store |-> st, gd |-> gd]

(***************************************************************************)
(* get_path, generate_cumulus_record, cumulus_output_generator.            *)
(***************************************************************************)
\* s.replace(f'{protocol}://{host}/', ''): drops protocol://host where a '/' follows it
RECURSIVE StripOrigin(_)
StripOrigin(p) ==
    IF Len(p) <= 1 THEN p
    ELSE IF Head(p) = Origin THEN StripOrigin(Tail(p))
    ELSE <<Head(p)>> \o StripOrigin(Tail(p))

get_path(key) == [path |-> StripOrigin(Front(key)), name |-> Last(key)]

\* lines 476-481: mapping[reg] = {...}; a repeated regex keeps its place and takes the
\* later value
RECURSIVE BuildMapping(_, _, _)
BuildMapping(files_list, i, mapping) ==
    IF i > Len(files_list) THEN mapping
    ELSE
      LET file_dict == files_list[i]
          v == [bucket |-> file_dict.bucket, lzards |-> file_dict.lzards]
          at == {j \in 1..Len(mapping) : mapping[j].reg = file_dict.regex}
          next == IF at = {}
                  THEN Append(mapping, [reg |-> file_dict.regex, v |-> v])
                  ELSE [j \in 1..Len(mapping) |->
                          IF j \in at THEN [reg |-> file_dict.regex, v |-> v]
                          ELSE mapping[j]]
      IN  BuildMapping(files_list, i + 1, next)

\* lines 436-441: the first rule whose regex matches the name, or {}
NoRule == [bucket |-> PyNone, lzards |-> PyNone, matched |-> FALSE]
FirstMatch(mapping, name) ==
    LET hits == {j \in 1..Len(mapping) : re_search(mapping[j].reg, <<name>>)}
    IN  IF hits = {} THEN NoRule
        ELSE LET j == CHOOSE x \in hits : \A y \in hits : x <= y
             IN  [bucket |-> mapping[j].v.bucket, lzards |-> mapping[j].v.lzards,
                  matched |-> TRUE]

\* collection.get('name', '') and collection.get('version', '')
CollectionName == "collection"
Version == "1"

\* f'{self.config_stack}-{temp_dict.get("bucket")}'
BucketName(config_stack, temp_dict) == config_stack \o "-" \o Str(temp_dict.bucket)

Truthy(v) == v \notin {PyNone, "False", ""}

generate_cumulus_record(key, value, mapping, config_stack) ==
    LET epoch == Get(value, "LastModified")
        path_and_name_dict == get_path(key)
        temp_dict == FirstMatch(mapping, path_and_name_dict.name)
        lz == Truthy(temp_dict.lzards)
    IN  [granuleId |-> path_and_name_dict.name,
         dataType |-> CollectionName,
         version |-> Version,
         files |-> <<[bucket |-> BucketName(config_stack, temp_dict),
                      checksum |-> IF lz THEN Get(value, "ETag") ELSE "",
                      checksumType |-> IF lz THEN "md5" ELSE "",
                      filename |-> key,
                      name |-> path_and_name_dict.name,
                      path |-> path_and_name_dict.path,
                      size |-> Get(value, "Size"),
                      time |-> epoch,
                      type |-> ""]>>]

\* the keys of a dictionary as a list (the iteration order is not modelled)
RECURSIVE KeyList(_)
KeyList(keys) ==
    IF keys = {} THEN <<>>
    ELSE LET k == CHOOSE x \in keys : TRUE IN <<k>> \o KeyList(keys \ {k})

cumulus_output_generator(ret_dict, files_list, config_stack) ==
    LET mapping == BuildMapping(files_list, 1, <<>>)
        ks == KeyList(DOMAIN ret_dict)
    IN  [i \in 1..Len(ks) |->
            generate_cumulus_record(ks[i], ret_dict[ks[i]], mapping, config_stack)]

\* lines 89-94: the names cleanup mode hands to delete_granules_by_names
CleanupNames(granules) ==
    [i \in 1..Len(granules) |->
        LET file == granules[i].files[1] IN Append(file.path, file.name)]

(***************************************************************************)
(* Configurations and remote contents the specifications range over.       *)
(***************************************************************************)
Protocols == {"http", "https", "s3", "sftp"}
ProviderPaths == {<<>>, <<"data">>}

\* duplicateHandling and force_replace as configured, given as str(value)
DuplicateHandlings == {Absent, "skip", "replace", "error", "Replace"}
ForceReplaces == {Absent, "True", "False", "true", "false"}

FileRegexes == {NoRegex, Ends("f"), Ends("a")}
DirRegexes == {NoRegex, Ends("data"), Has("data"), Ends("a"), Has("a")}
Depths == (0 - MaxDepthArg)..MaxDepthArg

\* collection.files
RuleF == [regex |-> Ends("f"), bucket |-> "protected", lzards |-> "True"]
RuleAny == [regex |-> AnyName, bucket |-> "public", lzards |-> PyNone]
FilesLists == {<<RuleF>>, <<RuleF, RuleAny>>}

Stack == "stack"

NoConfig ==
    [file_reg_ex |-> NoRegex, dir_reg_ex |-> NoRegex, depth |-> 0,
     duplicateHandling |-> Absent, force_replace |-> Absent,
     files_list |-> <<>>, config_stack |-> Stack, no_return |-> FALSE]

BaseMeta(hdr) == [etag |-> "e1", mtime |-> 1000, size |-> 10, hdr |-> hdr]

\* the remote tree of SpecWalk: the directories a and b down to two levels and only a
\* below that; every directory holds the file f (sends ETag and Last-Modified over
\* HTTP), the upper ones also g (sends Last-Modified only)
FullDirs == {p \in SeqsUpTo(DirNames, TreeDepth) : \A i \in 3..Len(p) : p[i] = "a"}
FullFiles ==
    [rel \in {Append(d, "f") : d \in FullDirs \cup {<<>>}}
              \cup {Append(d, "g") : d \in {<<>>, <<"a">>, <<"b">>}} |->
        BaseMeta(IF Last(rel) = "f" THEN "both" ELSE "lm")]

\* a small tree: f at the start location and g in its subdirectory a
SmallDirs == {<<"a">>}
SmallFiles == (<<"f">> :> BaseMeta("both")) @@ (<<"a", "g">> :> BaseMeta("etag"))

NoWalk == [listed |-> <<>>, src |-> NoSrc]
NoCleanup == [input |-> <<>>, names |-> <<>>, num |-> 0]
NoPrev == [called |-> FALSE, same |-> FALSE, skip |-> FALSE]
NoSession == [cwd |-> <<"">>, listed |-> <<>>, failed |-> <<>>]

InitCommon ==
    /\ store = EmptyDict
    /\ storeBefore = EmptyDict
    /\ op = [name |-> "init", raised |-> "", after |-> "init"]
    /\ granule_dict = EmptyDict
    /\ walk = NoWalk
    /\ survivors = EmptyDict
    /\ output = <<>>
    /\ cleanup = NoCleanup
    /\ prev = NoPrev
    /\ runs = [calls |-> 0, changes |-> 0]
    /\ stack = <<>>
    /\ session = NoSession

(***************************************************************************)
(* Spec: invocations of discover() (discover mode and cleanup mode) of one *)
(* deployment, between which the remote content may change.  The re-ingest *)
(* mode (collection.meta.granules given) is not part of the model.         *)
(***************************************************************************)
Init ==
    /\ protocol \in Protocols \ {"https"}
    /\ provider_path \in ProviderPaths
    /\ dirs = SmallDirs
    /\ files = SmallFiles
    /\ listOrder = <<"a", "b", "f", "g">>
    /\ \E depth \in {0, 1}, files_list \in FilesLists, no_return \in BOOLEAN :
          config = [NoConfig EXCEPT !.depth = depth, !.files_list = files_list,
                                    !.no_return = no_return]
    /\ InitCommon

\* discover(), discover mode (lines 110-129)
Discover ==
    /\ runs.calls < MaxRuns
    /\ \E duplicateHandling \in {Absent, "replace", "error"},
          force_replace \in {Absent, "True"} :
        LET w == discover_granules(config.file_reg_ex, config.dir_reg_ex, config.depth)
            r == check_granule_updates_db(store, w.gd, duplicateHandling, force_replace)
            out == cumulus_output_generator(r.gd, config.files_list,
                                            config.config_stack)
        IN  /\ config' = [config EXCEPT !.duplicateHandling = duplicateHandling,
                                        !.force_replace = force_replace]
            /\ granule_dict' = w.gd
            /\ walk' = [listed |-> w.listed, src |-> w.src]
            /\ storeBefore' = store
            /\ store' = r.store
            /\ survivors' = r.gd
            /\ output' = IF r.raised # "" \/ config.no_return THEN <<>> ELSE out
            /\ op' = [name |-> "discover", raised |-> r.raised, after |-> op.name]
    /\ runs' = [runs EXCEPT !.calls = @ + 1]
    /\ UNCHANGED <<protocol, provider_path, dirs, files, listOrder, cleanup, prev,
                   stack, session>>

\* discover(), cleanup mode (lines 87-99), with the records of the last run as input
Cleanup ==
    /\ runs.calls < MaxRuns
    /\ op.name = "discover" /\ op.raised = ""
    /\ LET names == CleanupNames(output)
           d == delete_granules_by_names(store, names)
       IN  /\ cleanup' = [input |-> output, names |-> names, num |-> d.num]
           /\ storeBefore' = store
           /\ store' = d.store
    /\ output' = <<>>
    /\ op' = [name |-> "cleanup", raised |-> "", after |-> op.name]
    /\ runs' = [runs EXCEPT !.calls = @ + 1]
    /\ UNCHANGED <<protocol, provider_path, dirs, files, listOrder, config,
                   granule_dict, walk, survivors, prev, stack, session>>

\* the provider replaces a file: its identity tag, modification time or size changes
ProviderChange ==
    /\ runs.changes < MaxChanges
    /\ \E rel \in DOMAIN files :
         \/ \E e \in ETags \ {files[rel].etag} : files' = [files EXCEPT ![rel].etag = e]
         \/ \E t \in Times \ {files[rel].mtime} : files' = [files EXCEPT ![rel].mtime = t]
         \/ \E n \in Sizes \ {files[rel].size} : files' = [files EXCEPT ![rel].size = n]
    /\ op' = [name |-> "change", raised |-> "", after |-> op.name]
    /\ runs' = [runs EXCEPT !.changes = @ + 1]
    /\ UNCHANGED <<protocol, provider_path, dirs, listOrder, store, storeBefore, config,
                   granule_dict, walk, survivors, output, cleanup, prev, stack, session>>

Next == Discover \/ Cleanup \/ ProviderChange

Spec == Init /\ [][Next]_vars

(***************************************************************************)
(* SpecWalk: one discovery walk (discover_granules) over the full tree,    *)
(* for every protocol, filter and depth; the inputs are drawn in InitWalk. *)
(***************************************************************************)
InitWalk ==
    /\ protocol \in Protocols
    /\ provider_path = <<"data">>
    /\ dirs = FullDirs
    /\ files = FullFiles
    /\ listOrder \in {<<"a", "b", "f", "g">>, <<"g", "f", "b", "a">>}
    /\ \E file_reg_ex \in FileRegexes, dir_reg_ex \in DirRegexes, depth \in Depths :
          config = [NoConfig EXCEPT !.file_reg_ex = file_reg_ex,
                                    !.dir_reg_ex = dir_reg_ex, !.depth = depth]
    /\ InitCommon

Walked(w) ==
    /\ op.name = "init"
    /\ granule_dict' = w.gd
    /\ walk' = [listed |-> w.listed, src |-> w.src]
    /\ op' = [name |-> "walk", raised |-> "", after |-> op.name]
    /\ UNCHANGED <<protocol, provider_path, dirs, files, listOrder, store, storeBefore,
                   config, survivors, output, cleanup, prev, runs, stack, session>>

\* prep_http / prep_https
WalkHttp ==
    /\ protocol \in {"http", "https"}
    /\ Walked(prep_http(config.file_reg_ex, config.dir_reg_ex, config.depth))

\* prep_s3
WalkS3 ==
    /\ protocol = "s3"
    /\ Walked(prep_s3(config.file_reg_ex, config.dir_reg_ex))

\* prep_sftp
WalkSftp ==
    /\ protocol = "sftp"
    /\ Walked(prep_sftp(config.file_reg_ex, config.dir_reg_ex, config.depth))

NextWalk == WalkHttp \/ WalkS3 \/ WalkSftp

SpecWalk == InitWalk /\ [][NextWalk]_vars

(***************************************************************************)
(* SpecReconcile: calls of check_granule_updates_db, one after the other,  *)
(* each with any discovered mapping and any configured policy.             *)
(***************************************************************************)
ReconcileKeys == {<<"", "data", "f">>, <<"", "data", "g">>}
ReconcileMetas ==
    {[ETag |-> "N/A", LastModified |-> ToString(t), Size |-> 10] : t \in Times}
Mappings ==
    UNION {[keys -> ReconcileMetas] : keys \in SUBSET ReconcileKeys}

\* the configuration asks for skip: skip itself, no duplicateHandling, or replace
\* without the force flag
ForceFlagSet(force_replace) == force_replace \in {"True", "true"}
AsksReplace(duplicateHandling) == duplicateHandling \in {"replace", "Replace"}
AsksSkip(duplicateHandling, force_replace) ==
    \/ duplicateHandling \in {Absent, "skip"}
    \/ AsksReplace(duplicateHandling) /\ ~ForceFlagSet(force_replace)

InitReconcile ==
    /\ protocol = "sftp"
    /\ provider_path = <<"data">>
    /\ dirs = SmallDirs
    /\ files = SmallFiles
    /\ listOrder = <<"a", "b", "f", "g">>
    /\ config = NoConfig
    /\ InitCommon

Reconcile ==
    /\ \E gd \in Mappings, duplicateHandling \in DuplicateHandlings,
          force_replace \in ForceReplaces :
        LET r == check_granule_updates_db(store, gd, duplicateHandling, force_replace)
        IN  /\ config' = [NoConfig EXCEPT !.duplicateHandling = duplicateHandling,
                                          !.force_replace = force_replace]
            /\ granule_dict' = gd
            /\ survivors' = r.gd
            /\ storeBefore' = store
            /\ store' = r.store
            /\ op' = [name |-> "reconcile", raised |-> r.raised, after |-> op.name]
    /\ prev' = IF op.name = "reconcile" /\ op.raised = ""
               THEN [called |-> TRUE, same |-> granule_dict' = granule_dict,
                     skip |-> AsksSkip(config.duplicateHandling, config.force_replace)]
               ELSE NoPrev
    /\ UNCHANGED <<protocol, provider_path, dirs, files, listOrder, walk, output,
                   cleanup, runs, stack, session>>

NextReconcile == Reconcile

SpecReconcile == InitReconcile /\ [][NextReconcile]_vars

(***************************************************************************)
(* The walks, call by call.  A frame of stack is one activation of         *)
(* discover_granules_sftp or discover_granules_http: its parameters path   *)
(* and depth, its locals entries (the listing it loops over), i (the next  *)
(* entry), directory_list, granule_dict, j (the next directory) and its    *)
(* position pc.  loc is the remote location the activation is for (the     *)
(* caller's location extended by the directory it was called for); it is   *)
(* bookkeeping of the model and no action reads it.                        *)
(***************************************************************************)
Frame(path, loc, depth, pc) ==
    [path |-> path, loc |-> loc, depth |-> depth, pc |-> pc, entries |-> <<>>, i |-> 1,
     directory_list |-> <<>>, granule_dict |-> EmptyDict, j |-> 1]

Top == stack[Len(stack)]
SetTop(f) == [stack EXCEPT ![Len(stack)] = f]

\* the frame left after the loop over the entries moved past entry i
AfterEntry(f) ==
    [f EXCEPT !.i = @ + 1, !.pc = IF f.i + 1 > Len(f.entries) THEN "recurse" ELSE @]

\* return sub_dict to the caller: granule_dict.update(...) in the caller's loop over
\* directory_list, or the end of discover_granules()
ReturnToCaller(sub_dict) ==
    IF Len(stack) > 1
    THEN /\ stack' = [k \in 1..(Len(stack) - 1) |->
                        IF k = Len(stack) - 1
                        THEN [stack[k] EXCEPT !.granule_dict = Update(@, sub_dict),
                                              !.j = @ + 1]
                        ELSE stack[k]]
         /\ UNCHANGED <<granule_dict, op>>
    ELSE /\ stack' = <<>>
         /\ granule_dict' = sub_dict
         /\ op' = [name |-> "walked", raised |-> "", after |-> op.name]

\* discover_granules() is called: prep_<protocol> makes the first call of the walk
BeginWalk ==
    /\ op.name \in {"init", "discover"}
    /\ runs.calls < MaxRuns
    /\ stack = <<>>
    /\ stack' = <<CASE protocol \in {"http", "https"} ->
                         Frame(HttpBase, HttpBase, config.depth, "get")
                    [] protocol = "s3" ->
                         Frame(provider_path, <<Origin>> \o provider_path, 0, "paginate")
                    [] protocol = "sftp" ->
                         Frame(SftpBase, SftpBase, config.depth, "chdir")>>
    /\ session' = NoSession
    /\ storeBefore' = store
    /\ output' = <<>>
    /\ op' = [name |-> "walking", raised |-> "", after |-> op.name]
    /\ UNCHANGED <<protocol, provider_path, dirs, files, listOrder, store, config,
                   granule_dict, walk, survivors, cleanup, prev, runs>>

\* sftp_client.chdir('../') (line 408)
sftp_leave_stay(cwd) == cwd
sftp_leave(cwd) == chdir(cwd, <<"..">>)

\* sftp_client.chdir(path) (line 387)
SftpChdir ==
    /\ stack # <<>> /\ Top.pc = "chdir"
    /\ session' = [session EXCEPT !.cwd = chdir(@, Top.path)]
    /\ stack' = SetTop([Top EXCEPT !.pc = "listdir"])
    /\ UNCHANGED <<protocol, provider_path, dirs, files, listOrder, store, storeBefore,
                   config, op, granule_dict, walk, survivors, output, cleanup, prev, runs>>

\* sftp_client.listdir() (line 389)
SftpListdir ==
    /\ stack # <<>> /\ Top.pc = "listdir"
    /\ LET entries == listdir(session.cwd)
       IN  stack' = SetTop([Top EXCEPT !.entries = entries,
                                       !.pc = IF entries = <<>> THEN "recurse"
                                              ELSE "stat"])
    /\ session' = [session EXCEPT !.listed = Append(@, session.cwd)]
    /\ UNCHANGED <<protocol, provider_path, dirs, files, listOrder, store, storeBefore,
                   config, op, granule_dict, walk, survivors, output, cleanup, prev, runs>>

\* one turn of the loop over listdir(): stat and the filters (lines 390-399)
SftpStat ==
    /\ stack # <<>> /\ Top.pc = "stat"
    /\ LET f == Top
           scan == SftpScan(session.cwd, f.path, <<f.entries[f.i]>>, 1,
                            config.file_reg_ex, config.dir_reg_ex,
                            [gd |-> f.granule_dict, src |-> NoSrc,
                             dl |-> f.directory_list])
       IN  stack' = SetTop(AfterEntry([f EXCEPT !.granule_dict = scan.gd,
                                                !.directory_list = scan.dl]))
    /\ UNCHANGED <<protocol, provider_path, dirs, files, listOrder, store, storeBefore,
                   config, op, granule_dict, walk, survivors, output, cleanup, prev, runs,
                   session>>

\* the recursive call for the next directory of directory_list (lines 401-406)
SftpDescend ==
    /\ stack # <<>> /\ Top.pc = "recurse" /\ protocol = "sftp"
    /\ Clamp(Top.depth) > 0 /\ Top.j <= Len(Top.directory_list)
    /\ LET directory == Top.directory_list[Top.j]
       IN  stack' = Append(stack, Frame(directory, Top.loc \o directory,
                                         Clamp(Top.depth) - 1, "chdir"))
    /\ UNCHANGED <<protocol, provider_path, dirs, files, listOrder, store, storeBefore,
                   config, op, granule_dict, walk, survivors, output, cleanup, prev, runs,
                   session>>

\* the loop over directory_list is over, or depth is 0: chdir('../') and return
\* (lines 402, 408-409)
SftpReturn ==
    /\ stack # <<>> /\ Top.pc = "recurse" /\ protocol = "sftp"
    /\ Clamp(Top.depth) = 0 \/ Top.j > Len(Top.directory_list)
    /\ session' = [session EXCEPT !.cwd = sftp_leave(@)]
    /\ ReturnToCaller(Top.granule_dict)
    /\ UNCHANGED <<protocol, provider_path, dirs, files, listOrder, store, storeBefore,
                   config, walk, survivors, output, cleanup, prev, runs>>

(***************************************************************************)
(* SpecSftp: one walk of discover_granules_sftp over the full tree, call   *)
(* by call, for every filter and depth.                                    *)
(***************************************************************************)
InitSftp ==
    /\ protocol = "sftp"
    /\ provider_path \in ProviderPaths
    /\ dirs = FullDirs
    /\ files = FullFiles
    /\ listOrder \in {<<"a", "b", "f", "g">>, <<"g", "f", "b", "a">>}
    /\ \E file_reg_ex \in {NoRegex, Ends("f")}, dir_reg_ex \in {NoRegex, Has("data")},
          depth \in Depths :
          config = [NoConfig EXCEPT !.file_reg_ex = file_reg_ex,
                                    !.dir_reg_ex = dir_reg_ex, !.depth = depth]
    /\ InitCommon

NextSftp ==
    BeginWalk \/ SftpChdir \/ SftpListdir \/ SftpStat \/ SftpDescend \/ SftpReturn

SpecSftp == InitSftp /\ [][NextSftp]_vars

(***************************************************************************)
(* The HTTP and S3 walks and discover(), call by call, with transport      *)
(* calls that fail.  paramiko and boto3 raise when a call fails, and so    *)
(* does requests when no response arrives; a response with an error status *)
(* is returned by session.get and session.head like any other, and         *)
(* html_request and headers_request (lines 166-182) do not look at the     *)
(* status: the error page is parsed as the listing (it links nothing) and  *)
(* the headers of the error response (no ETag, no Last-Modified) are the   *)
(* result of the probe.                                                    *)
(***************************************************************************)
TransportCalls == {"chdir", "listdir", "stat", "get", "head", "paginate"}

\* html_request(url_path) (line 254)
HttpGet ==
    /\ stack # <<>> /\ Top.pc = "get"
    /\ \E ok \in BOOLEAN :
        LET entries == IF ok THEN html_request(Top.path) ELSE <<>>
        IN  /\ stack' = SetTop([Top EXCEPT !.entries = entries,
                                           !.pc = IF entries = <<>> THEN "recurse"
                                                  ELSE "head"])
            /\ session' = [session EXCEPT
                             !.listed = Append(@, Top.path),
                             !.failed = IF ok THEN @ ELSE Append(@, Top.path)]
    /\ UNCHANGED <<protocol, provider_path, dirs, files, listOrder, store, storeBefore,
                   config, op, granule_dict, walk, survivors, output, cleanup, prev, runs>>

\* one turn of the loop over the a_tags: headers_request and the filters (lines 257-283)
HttpHead ==
    /\ stack # <<>> /\ Top.pc = "head"
    /\ \E ok \in BOOLEAN :
        LET f == Top
            path == Append(f.path, f.entries[f.i])
            acc == [gd |-> f.granule_dict, src |-> NoSrc, dl |-> f.directory_list]
            scan == IF ok
                    THEN HttpScan(f.path, <<f.entries[f.i]>>, 1, config.file_reg_ex,
                                  config.dir_reg_ex, acc)
                    ELSE IF Passes(config.dir_reg_ex, path)
                    THEN [acc EXCEPT !.dl = Append(@, path)]
                    ELSE acc
        IN  /\ stack' = SetTop(AfterEntry([f EXCEPT !.granule_dict = scan.gd,
                                                    !.directory_list = scan.dl]))
            /\ session' = [session EXCEPT !.failed = IF ok THEN @ ELSE Append(@, path)]
    /\ UNCHANGED <<protocol, provider_path, dirs, files, listOrder, store, storeBefore,
                   config, op, granule_dict, walk, survivors, output, cleanup, prev, runs>>

\* the recursive call for the next directory of directory_list (lines 286-291)
HttpDescend ==
    /\ stack # <<>> /\ Top.pc = "recurse" /\ protocol \in {"http", "https"}
    /\ Clamp(Top.depth) > 0 /\ Top.j <= Len(Top.directory_list)
    /\ LET directory == Top.directory_list[Top.j]
       IN  stack' = Append(stack, Frame(directory, directory, Clamp(Top.depth) - 1,
                                         "get"))
    /\ UNCHANGED <<protocol, provider_path, dirs, files, listOrder, store, storeBefore,
                   config, op, granule_dict, walk, survivors, output, cleanup, prev, runs,
                   session>>

\* the loop over directory_list is over, or depth is 0: return (lines 287, 294)
HttpReturn ==
    /\ stack # <<>> /\ Top.pc = "recurse" /\ protocol \in {"http", "https"}
    /\ Clamp(Top.depth) = 0 \/ Top.j > Len(Top.directory_list)
    /\ ReturnToCaller(Top.granule_dict)
    /\ UNCHANGED <<protocol, provider_path, dirs, files, listOrder, store, storeBefore,
                   config, walk, survivors, output, cleanup, prev, runs, session>>

\* discover_granules_s3: the paginator's pages and the filters (lines 331-351)
S3Paginate ==
    /\ stack # <<>> /\ Top.pc = "paginate"
    /\ session' = [session EXCEPT !.listed = Append(@, Top.loc)]
    /\ ReturnToCaller(prep_s3(config.file_reg_ex, config.dir_reg_ex).gd)
    /\ UNCHANGED <<protocol, provider_path, dirs, files, listOrder, store, storeBefore,
                   config, walk, survivors, output, cleanup, prev, runs>>

\* a transport call raises: nothing in discover_granules_* or discover() catches it
TransportRaises ==
    /\ stack # <<>> /\ Top.pc \in TransportCalls
    /\ session' = [session EXCEPT !.failed = Append(@, Top.loc)]
    /\ stack' = <<>>
    /\ output' = <<>>
    /\ op' = [name |-> "discover", raised |-> "TransportError", after |-> op.name]
    /\ runs' = [runs EXCEPT !.calls = @ + 1]
    /\ UNCHANGED <<protocol, provider_path, dirs, files, listOrder, store, storeBefore,
                   config, granule_dict, walk, survivors, cleanup, prev>>

\* discover() after discover_granules() returned (lines 113-129)
Finish ==
    /\ op.name = "walked"
    /\ LET r == check_granule_updates_db(store, granule_dict, config.duplicateHandling,
                                         config.force_replace)
           out == cumulus_output_generator(r.gd, config.files_list, config.config_stack)
       IN  /\ store' = r.store
           /\ survivors' = r.gd
           /\ output' = IF r.raised # "" \/ config.no_return THEN <<>> ELSE out
           /\ op' = [name |-> "discover", raised |-> r.raised, after |-> op.name]
    /\ runs' = [runs EXCEPT !.calls = @ + 1]
    /\ UNCHANGED <<protocol, provider_path, dirs, files, listOrder, storeBefore, config,
                   granule_dict, walk, cleanup, prev, stack, session>>

(***************************************************************************)
(* SpecRun: invocations of discover() in discover mode, call by call, in   *)
(* which any transport call may fail.                                      *)
(***************************************************************************)
InitRun ==
    /\ protocol \in Protocols
    /\ provider_path \in ProviderPaths
    /\ dirs = SmallDirs
    /\ files = SmallFiles
    /\ listOrder = <<"a", "b", "f", "g">>
    /\ \E depth \in {0, 1}, duplicateHandling \in {Absent, "replace"},
          no_return \in BOOLEAN :
          config = [NoConfig EXCEPT !.depth = depth, !.files_list = <<RuleF, RuleAny>>,
                                    !.duplicateHandling = duplicateHandling,
                                    !.force_replace = "True", !.no_return = no_return]
    /\ InitCommon

NextRun ==
    \/ BeginWalk
    \/ HttpGet \/ HttpHead \/ HttpDescend \/ HttpReturn
    \/ S3Paginate
    \/ SftpChdir \/ SftpListdir \/ SftpStat \/ SftpDescend \/ SftpReturn
    \/ TransportRaises
    \/ Finish

SpecRun == InitRun /\ [][NextRun]_vars

(***************************************************************************)
(* Properties.                                                             *)
(***************************************************************************)
\* the keys (files[0].filename) of a list of output records
Filenames(records) == {records[i].files[1].filename : i \in 1..Len(records)}

Returned == op.name = "discover" /\ op.raised = "" /\ ~config.no_return

\* the discovered entries that are new or differ from the record stored under their key
NewOrChanged ==
    {k \in DOMAIN granule_dict :
        k \notin DOMAIN storeBefore \/ storeBefore[k] # granule_dict[k]}

\* C1: a discovery run emits a record for a discovered file if and only if the file
\* is new (no stored record under its key) or changed (its identity tag, modification
\* time or size differs from the stored record).  Stated for the runs whose
\* configuration asks for skip, the default policy.
C1_EmitsIffNewOrChanged ==
    (Returned /\ AsksSkip(config.duplicateHandling, config.force_replace))
        => Filenames(output) = NewOrChanged

\* C2: when check_granule_updates_db is called twice in a row with policy skip and
\* the same discovered mapping, the second call leaves an empty surviving set and
\* every stored record as it was.
C2_SkipIdempotent ==
    (/\ op.name = "reconcile"
     /\ prev.called /\ prev.skip /\ prev.same
     /\ AsksSkip(config.duplicateHandling, config.force_replace))
        => survivors = EmptyDict /\ store = storeBefore

C2_Witness ==
    /\ op.name = "reconcile"
    /\ prev.called /\ prev.skip /\ prev.same
    /\ AsksSkip(config.duplicateHandling, config.force_replace)
    /\ Cardinality(DOMAIN granule_dict) = 2
    /\ DOMAIN granule_dict \subseteq DOMAIN storeBefore

\* C3: duplicateHandling replace with the force flag set keeps every discovered key
\* and stores the discovered metadata; replace without the force flag acts as skip;
\* skip and error act as configured; no duplicateHandling means skip.
C3_PolicyResolution ==
    op.name = "reconcile" =>
        LET dup == config.duplicateHandling
            force == config.force_replace
            got == [raised |-> op.raised, store |-> store, gd |-> survivors]
        IN  /\ (AsksReplace(dup) /\ ForceFlagSet(force)) =>
                  /\ op.raised = ""
                  /\ survivors = granule_dict
                  /\ \A k \in DOMAIN granule_dict :
                        k \in DOMAIN store /\ store[k] = granule_dict[k]
            /\ (AsksReplace(dup) /\ ~ForceFlagSet(force)) =>
                  got = db_skip(storeBefore, granule_dict)
            /\ dup \in {Absent, "skip"} => got = db_skip(storeBefore, granule_dict)
            /\ dup = "error" => got = db_error(storeBefore, granule_dict)

C3_Witness ==
    /\ op.name = "reconcile"
    /\ AsksReplace(config.duplicateHandling) /\ ForceFlagSet(config.force_replace)
    /\ \E k \in DOMAIN granule_dict \cap DOMAIN storeBefore :
          storeBefore[k] # granule_dict[k] /\ store[k] = granule_dict[k]

Recursed == {walk.listed[i] : i \in 2..Len(walk.listed)}

\* C5: every key of the returned mapping has a base name that fileRegex passes, and
\* every directory the walk recurses into has a full path that dirRegex passes.
C5_FilterCorrectness ==
    op.name = "walk" =>
        /\ \A k \in DOMAIN granule_dict : Passes(config.file_reg_ex, <<Last(k)>>)
        /\ \A d \in Recursed : Passes(config.dir_reg_ex, d)

\* the start location of the walk and the level of a location below it
StartLocation == IF protocol = "sftp" THEN SftpBase ELSE HttpBase
Level(loc) == Len(loc) - Len(StartLocation)
Listed == {walk.listed[i] : i \in 1..Len(walk.listed)}

\* C6: for any integer depth d the HTTP and SFTP walks list the start location and
\* only directories at most min(|d|, 3) levels below it (all of them when no dirRegex
\* is given), and with d = 0 they enter no subdirectory.
C6_DepthClamped ==
    (op.name = "walk" /\ protocol # "s3") =>
        LET d == IF config.depth < 0 THEN 0 - config.depth ELSE config.depth
            limit == IF d < 3 THEN d ELSE 3
        IN  /\ walk.listed[1] = StartLocation
            /\ \A loc \in Listed : Level(loc) >= 0 /\ Level(loc) <= limit
            /\ config.dir_reg_ex = NoRegex =>
                  Listed = {StartLocation \o rel : rel \in
                               {r \in dirs \cup {<<>>} : Len(r) <= limit}}
            /\ config.depth = 0 => Len(walk.listed) = 1

C6_Witness ==
    /\ op.name = "walk" /\ protocol = "sftp"
    /\ config.depth = 0 - MaxDepthArg
    /\ \E loc \in Listed : Level(loc) = 3
    /\ \E r \in dirs : Len(r) = 4 /\ StartLocation \o r \notin Listed

\* C7: every key of the returned mapping is the full location path of its file, and
\* no key is written twice in one walk (a merge never overwrites an entry).
C7_KeysAreFullPaths ==
    op.name = "walk" =>
        \A k \in DOMAIN granule_dict : walk.src[k] = <<k>>

\* C8: a discovered entry whose base name matches none of the file rules still gets
\* a record, and the record's bucket, checksum and checksum type are empty.
C8_UnroutedEmptyFields ==
    Returned =>
        /\ DOMAIN survivors \subseteq Filenames(output)
        /\ \A i \in 1..Len(output) :
              LET f == output[i].files[1]
                  unrouted == \A j \in 1..Len(config.files_list) :
                                 ~re_search(config.files_list[j].regex, <<f.name>>)
              IN  unrouted => f.bucket = "" /\ f.checksum = "" /\ f.checksumType = ""

\* C9: when the records of a discovery run come back as input, the names handed to
\* delete_granules_by_names are the keys of those records, all of them are removed
\* from the store and counted, and a following run with policy skip emits them again.
C9_CleanupRoundTrip ==
    LET batch == Filenames(cleanup.input)
        names == {cleanup.names[i] : i \in 1..Len(cleanup.names)}
    IN  /\ op.name = "cleanup" =>
              /\ names = batch
              /\ cleanup.num = Len(cleanup.input)
              /\ batch \cap DOMAIN store = {}
        /\ (/\ Returned /\ op.after = "cleanup"
            /\ AsksSkip(config.duplicateHandling, config.force_replace))
              => batch \subseteq Filenames(output)

\* whether the transport reports the entry at loc as a directory
ReportedDirectory(loc) ==
    IF protocol = "sftp" THEN stat(Front(loc), Last(loc)).type = "d"
    ELSE headers_request(loc) = EmptyDict

\* C10: an entry the transport reports as a directory never becomes a key of the
\* discovered mapping, whatever fileRegex and dirRegex are.
C10_DirectoryNeverKey ==
    (op.name = "walk" /\ protocol # "s3") =>
        \A k \in DOMAIN granule_dict :
            \A i \in 1..Len(walk.src[k]) : ~ReportedDirectory(walk.src[k][i])

(***************************************************************************)
(* C11: SFTP cursor discipline.  While an activation of                    *)
(* discover_granules_sftp lists or stats the entries of its directory, and *)
(* whenever it is between two recursive calls, the session's current       *)
(* directory is that directory; every activation that has called into a    *)
(* subdirectory has finished its loop over the listing; and a subdirectory *)
(* is entered while the current directory is its parent.                   *)
(***************************************************************************)
C11_CursorDiscipline ==
    stack # <<>> /\ protocol = "sftp" =>
        /\ Top.pc \in {"listdir", "stat", "recurse"} => session.cwd = Top.loc
        /\ \A k \in 1..(Len(stack) - 1) :
              /\ stack[k].pc = "recurse"
              /\ stack[k].i > Len(stack[k].entries)
        /\ Len(stack) > 1 /\ Top.pc = "chdir" => session.cwd = stack[Len(stack) - 1].loc

\* b is being scanned after its sibling a and a directory below a were listed and left
C11_Witness ==
    /\ Len(stack) = 2 /\ Top.pc = "stat" /\ Top.i > 1
    /\ Top.loc = Append(SftpBase, "b") /\ session.cwd = Top.loc
    /\ \E n \in 1..Len(session.listed) : session.listed[n] = Append(SftpBase, "a")
    /\ \E n \in 1..Len(session.listed) : Len(session.listed[n]) = Len(SftpBase) + 2

(***************************************************************************)
(* C12: in discover mode the store is not written before the traversal has *)
(* completed, and when a transport call of the walk has failed, discover() *)
(* ends with that failure, the store is as it was before the run and no    *)
(* output record is returned.                                              *)
(***************************************************************************)
C12_FailurePropagates ==
    /\ op.name \in {"walking", "walked"} => store = storeBefore
    /\ op.name = "discover" /\ session.failed # <<>> =>
          /\ op.raised = "TransportError"
          /\ store = storeBefore
          /\ output = <<>>

====
